---- MODULE Spec2Model ----
(***************************************************************************)
(* Signaling relay of gosnapdrop (src/main.go): the room registry, the     *)
(* join/leave broadcast protocol, the relay routing, the per-peer          *)
(* keepalive and the connection life cycle, as one state machine.          *)
(*                                                                         *)
(* Every connection owns three sequential processes:                       *)
(*   <<"conn", p>>   the HTTP handler goroutine: handleWebSocket,          *)
(*                   onConnection, the first keepAlive call, go            *)
(*                   handleMessages;                                       *)
(*   <<"recv", p>>   the goroutine running handleMessages and its          *)
(*                   deferred leaveRoom and wg.Done;                       *)
(*   <<"timer", p>>  the goroutine time.AfterFunc starts for a firing of   *)
(*                   keepAlive.                                            *)
(* A step is one statement that touches state shared without a lock,       *)
(* together with the statements around it that touch only the process's    *)
(* own state or state protected by the lock it holds: taking the lock is   *)
(* joined to the first statement under it, releasing it to the last.       *)
(* Steps of different processes interleave freely.                         *)
(***************************************************************************)
EXTENDS Integers, Sequences, FiniteSets, TLC

\* ------------------------------------------------------------- bounds
\* frames the clients send, all connections together, in the three scenarios
RoomsFrames == 1
RelayFrames == 2
TimedFrames == 1
WritesFrames == 1
ShutdownFrames == 1
LiveFrames == 1
FramesFrames == 2
FramesFires == 1
BeatFrames == 1
BeatFires == 3
\* seconds per step of the clock in the scenario that counts unanswered pings
BeatTick == 1
\* keepalive timers that fire, all connections together
TimedFires == 2

\* ---------------------------------------------------- program constants
Timeout == 30       \* timeout := 30 * time.Second
DeadFactor == 2     \* time.Since(peer.LastBeat) > 2*timeout

\* The clock advances in steps of one keepalive interval. Elapsed times are
\* kept up to the first value beyond the deadline: more makes no difference.
TickLen == Timeout
SinceCap == DeadFactor * Timeout + TickLen

\* ------------------------------------------------------------ universe
Peers == {"a", "b", "c"}          \* peer.ID of the connections (generateUUID)
IPs == {"X", "Y"}                 \* c.ClientIP() values
NoPeer == "nobody"                \* an id no connection has
NoOne == <<"none", "none">>       \* the mutex has no owner
Kinds == {"conn", "recv", "timer"}
Procs == Kinds \X Peers
\* who connects from where: everybody from one address, or "c" from another
\* (every other assignment is one of these two with the peers renamed)
IPAssignments == {[p \in Peers |-> "X"], [p \in Peers |-> IF p = "c" THEN "Y" ELSE "X"]}

\* A scenario bounds what the environment does: which clients connect, how
\* many frames they send and of which kind, how many timers become due. It
\* also fixes how the run is observed:
\*   split     a write on a socket takes two steps (it begins, it returns)
\*             instead of one;
\*   free      timer firings and the pongs of the clients in live are not
\*             counted against the budgets, and of the writes of a goroutine
\*             on a socket only the last is remembered (so that a run can go
\*             on forever);
\*   live      the clients that may answer pings without limit, and whose
\*             connection may stop carrying the server's writes;
\*   keep      the history variables frame and unanswered are kept;
\*   tick      seconds per step of the clock;
\*   punctual  a timer fires at most late seconds after it is due, and the
\*             goroutines take no time; otherwise timers and goroutines may
\*             be arbitrarily late.
Scenario(conns, frames, docs, fires) ==
    [conns |-> conns, frames |-> frames, docs |-> docs, fires |-> fires,
     split |-> FALSE, free |-> FALSE, live |-> {}, keep |-> FALSE,
     tick |-> TickLen, punctual |-> FALSE, late |-> 0]

VARIABLES
    scn,        \* the scenario (never changes)
    rooms,      \* s.rooms: locality -> set of member ids (absent key = no room)
    mutex,      \* s.mutex: the process holding the write lock, or NoOne
    done,       \* s.done is closed
    wg,         \* s.wg counter
    phase,      \* the process: "running", "draining" (wg.Wait) or "exited"
    IP,         \* peer.IP per connection
    sinceBeat,  \* time.Since(peer.LastBeat), in seconds, up to SinceCap
    TimerID,    \* peer.TimerID: "nil" or "timer"
    pending,    \* the runtime holds a started, unfired, unstopped timer for p
    timerLeft,  \* seconds until the pending timer is due
    closes,     \* how often peer.Socket.Close() was called
    out,        \* out[p][w]: what goroutine w handed to WriteJSON on p's socket
    pc,         \* control point of every process
    todo,       \* the peers a range loop under the lock has still to visit
    msg,        \* handleRelayMessage: the document being relayed
    recipient,  \* handleRelayMessage: the looked-up recipient
    nread,      \* frames read so far, all connections together
    nfired,     \* timers fired so far, all connections together
    before,     \* history: the room immediately before p's insertion
    after,      \* history: the room immediately after p's removal
    leaves,     \* history: completed leaveRoom calls per peer
    evict,      \* history: a keepAlive call found the peer past its deadline
    wr,         \* wr[w]: the peer on whose socket goroutine w is inside WriteJSON
    broken,     \* the peers whose connection no longer carries the server's writes
    frame,      \* history: the frame p's receive loop read last
    unanswered  \* history: pings sent to p since its last pong was handled

vars == <<scn, rooms, mutex, done, wg, phase, IP, sinceBeat, TimerID, pending,
          timerLeft, closes, out, pc, todo, msg, recipient, nread, nfired,
          before, after, leaves, evict, wr, broken, frame, unanswered>>

NoMsg == [type |-> "none"]
NoFrame == [mt |-> "none", json |-> FALSE, doc |-> NoMsg]

\* ------------------------------------------------------------- helpers
\* s.rooms[ip] as a set; a missing key reads as the nil (empty) map.
Room(ip) == IF ip \in DOMAIN rooms THEN rooms[ip] ELSE {}

\* All orders in which a range over a Go map can yield the set S.
Orders(S) == {s \in [1..Cardinality(S) -> S] : \A i, j \in 1..Cardinality(S) : s[i] = s[j] => i = j}

\* The identity producer is external: its result is a fixed record per peer.
PeerNameOf(p) == [model |-> "", os |-> "os-" \o p, browser |-> "br-" \o p, type |-> "",
                  deviceName |-> "dev-" \o p, displayName |-> "name-" \o p]
RTCSupportedOf(p) == TRUE

getInfo(p) == [id |-> p, name |-> PeerNameOf(p), rtcSupported |-> RTCSupportedOf(p)]

\* A write on p's transport: what WriteJSON was given, whether it failed, and
\* whether the server had closed the socket before.
Written(p, m) == [doc |-> m, err |-> closes[p] > 0 \/ p \in broken, closed |-> closes[p] > 0]

\* send(peer, message) called by goroutine w: peer and peer.Socket are never
\* nil for a peer that was constructed. The writes of one goroutine on one
\* socket are kept in their order; the program orders the writes of different
\* goroutines on one socket only through the registry lock.
send(o, w, p, m) ==
    [o EXCEPT ![p][w] = IF scn.free THEN <<Written(p, m)>> ELSE Append(@, Written(p, m))]

\* goroutine w is not inside WriteJSON
NotWriting(w) == wr[w] = NoPeer

\* goroutine w enters WriteJSON on q's socket
Begin(w, q) == IF scn.split THEN [wr EXCEPT ![w] = q] ELSE wr

\* mutant: Lock never waits, as if onConnection and leaveRoom took no lock
LockIgnored == TRUE

\* s.mutex.Lock() can return
CanLock == mutex = NoOne

Running == phase # "exited"

InitWith(scenario) ==
    /\ scn = scenario
    /\ rooms = << >>
    /\ mutex = NoOne
    /\ done = FALSE
    /\ wg = 0
    /\ phase = "running"
    /\ sinceBeat = [p \in Peers |-> 0]
    /\ TimerID = [p \in Peers |-> "nil"]
    /\ pending = [p \in Peers |-> FALSE]
    /\ timerLeft = [p \in Peers |-> 0]
    /\ closes = [p \in Peers |-> 0]
    /\ out = [p \in Peers |-> [w \in Procs |-> << >>]]
    /\ pc = [q \in Procs |-> IF q[1] = "conn" THEN "start" ELSE "idle"]
    /\ todo = {}
    /\ msg = [p \in Peers |-> NoMsg]
    /\ recipient = [p \in Peers |-> NoPeer]
    /\ nread = 0
    /\ nfired = 0
    /\ before = [p \in Peers |-> {}]
    /\ after = [p \in Peers |-> {}]
    /\ leaves = [p \in Peers |-> 0]
    /\ evict = [p \in Peers |-> FALSE]
    /\ wr = [w \in Procs |-> NoPeer]
    /\ broken = {}
    /\ frame = [p \in Peers |-> NoFrame]
    /\ unanswered = [p \in Peers |-> 0]

\* ---------------------------------------------- connection: join
\* handleWebSocket: the upgrade succeeded and the client IP is not empty;
\* s.wg.Add(1); the Peer is built with LastBeat: time.Now()
handleWebSocket(p) ==
    /\ Running
    /\ p \in scn.conns
    /\ pc[<<"conn", p>>] = "start"
    /\ NotWriting(<<"conn", p>>)
    /\ wg' = wg + 1
    /\ sinceBeat' = [sinceBeat EXCEPT ![p] = 0]
    /\ pc' = [pc EXCEPT ![<<"conn", p>>] = "oc_lock"]
    /\ UNCHANGED <<scn, rooms, mutex, done, phase, IP, TimerID, pending, timerLeft,
                   closes, out, todo, msg, recipient, nread, nfired, before, after, leaves, evict,
                   wr, broken, frame, unanswered>>

\* mutant: joinRoom adds the peer to the room before it notifies the others
joinRoomCreateInsertFirst(p) ==
    /\ Running
    /\ pc[<<"conn", p>>] = "oc_lock"
    /\ NotWriting(<<"conn", p>>)
    /\ CanLock
    /\ mutex' = <<"conn", p>>
    /\ rooms' = [ip \in DOMAIN rooms \cup {IP[p]} |-> IF ip = IP[p] THEN Room(ip) \cup {p} ELSE rooms[ip]]
    /\ todo' = Room(IP[p]) \cup {p}
    /\ pc' = [pc EXCEPT ![<<"conn", p>>] = "jr_notify"]
    /\ UNCHANGED <<scn, done, wg, phase, IP, sinceBeat, TimerID, pending, timerLeft,
                   closes, out, msg, recipient, nread, nfired, before, after, leaves, evict,
                   wr, broken, frame, unanswered>>

\* onConnection: s.mutex.Lock(); joinRoom: create the room if it doesn't exist
joinRoomCreate(p) ==
    /\ Running
    /\ pc[<<"conn", p>>] = "oc_lock"
    /\ NotWriting(<<"conn", p>>)
    /\ CanLock
    /\ mutex' = <<"conn", p>>
    /\ rooms' = IF IP[p] \in DOMAIN rooms THEN rooms
                ELSE [ip \in DOMAIN rooms \cup {IP[p]} |-> IF ip = IP[p] THEN {} ELSE rooms[ip]]
    /\ todo' = Room(IP[p])
    /\ pc' = [pc EXCEPT ![<<"conn", p>>] = IF Room(IP[p]) = {} THEN "jr_peers" ELSE "jr_notify"]
    /\ UNCHANGED <<scn, done, wg, phase, IP, sinceBeat, TimerID, pending, timerLeft,
                   closes, out, msg, recipient, nread, nfired, before, after, leaves, evict,
                   wr, broken, frame, unanswered>>

\* mutant: joinRoom skips the "peer-joined" write of an iteration
joinRoomNotifySkips(p) ==
    /\ Running
    /\ pc[<<"conn", p>>] = "jr_notify"
    /\ NotWriting(<<"conn", p>>)
    /\ \E q \in todo :
        /\ todo' = todo \ {q}
        /\ pc' = [pc EXCEPT ![<<"conn", p>>] = IF todo = {q} THEN "jr_peers" ELSE "jr_notify"]
    /\ UNCHANGED <<scn, rooms, mutex, done, wg, phase, IP, sinceBeat, TimerID, pending,
                   timerLeft, closes, msg, recipient, nread, nfired, before, after, leaves, evict,
                   out, wr, broken, frame, unanswered>>

\* joinRoom: one iteration of "notify other peers"
joinRoomNotify(p) ==
    /\ Running
    /\ pc[<<"conn", p>>] = "jr_notify"
    /\ NotWriting(<<"conn", p>>)
    /\ \E q \in todo :
        /\ out' = send(out, <<"conn", p>>, q, [type |-> "peer-joined", peer |-> getInfo(p)])
        /\ wr' = Begin(<<"conn", p>>, q)
        /\ todo' = todo \ {q}
        /\ pc' = [pc EXCEPT ![<<"conn", p>>] = IF todo = {q} THEN "jr_peers" ELSE "jr_notify"]
    /\ UNCHANGED <<scn, rooms, mutex, done, wg, phase, IP, sinceBeat, TimerID, pending,
                   timerLeft, closes, msg, recipient, nread, nfired, before, after, leaves, evict,
                   broken, frame, unanswered>>

\* joinRoom: the list of the existing peers, in the order the range yields them
Snapshot(order) == [i \in DOMAIN order |-> getInfo(order[i])]

\* joinRoom: send the existing peers to the new peer
joinRoomPeers(p) ==
    /\ Running
    /\ pc[<<"conn", p>>] = "jr_peers"
    /\ NotWriting(<<"conn", p>>)
    /\ \E order \in Orders(Room(IP[p])) :
        /\ out' = send(out, <<"conn", p>>, p, [type |-> "peers", peers |-> Snapshot(order)])
        /\ wr' = Begin(<<"conn", p>>, p)
    /\ pc' = [pc EXCEPT ![<<"conn", p>>] = "jr_insert"]
    /\ UNCHANGED <<scn, rooms, mutex, done, wg, phase, IP, sinceBeat, TimerID, pending,
                   timerLeft, closes, todo, msg, recipient, nread, nfired, before, after, leaves, evict,
                   broken, frame, unanswered>>

\* joinRoom: add the peer to the room; onConnection: s.mutex.Unlock()
joinRoomInsert(p) ==
    /\ Running
    /\ pc[<<"conn", p>>] = "jr_insert"
    /\ NotWriting(<<"conn", p>>)
    /\ before' = [before EXCEPT ![p] = Room(IP[p])]
    /\ rooms' = [rooms EXCEPT ![IP[p]] = @ \cup {p}]
    /\ mutex' = NoOne
    /\ pc' = [pc EXCEPT ![<<"conn", p>>] = "oc_display"]
    /\ UNCHANGED <<scn, done, wg, phase, IP, sinceBeat, TimerID, pending, timerLeft,
                   closes, out, todo, msg, recipient, nread, nfired, after, leaves, evict,
                   wr, broken, frame, unanswered>>

\* onConnection: send the display name, then call keepAlive
onConnectionDisplayName(p) ==
    /\ Running
    /\ pc[<<"conn", p>>] = "oc_display"
    /\ NotWriting(<<"conn", p>>)
    /\ out' = send(out, <<"conn", p>>, p,
                   [type |-> "display-name",
                    message |-> [displayName |-> PeerNameOf(p).displayName,
                                 deviceName |-> PeerNameOf(p).deviceName]])
    /\ wr' = Begin(<<"conn", p>>, p)
    /\ pc' = [pc EXCEPT ![<<"conn", p>>] = "ka_check"]
    /\ UNCHANGED <<scn, rooms, mutex, done, wg, phase, IP, sinceBeat, TimerID, pending,
                   timerLeft, closes, todo, msg, recipient, nread, nfired, before, after, leaves, evict,
                   broken, frame, unanswered>>

\* ---------------------------------------------- keepalive
\* cancelKeepAlive(peer): stop the timer TimerID refers to and clear TimerID.
\* TimerID always refers to the timer created last, the only one that can
\* still be pending; Stop on a timer that fired already does nothing.
cancelKeepAlive(p) ==
    /\ TimerID' = [TimerID EXCEPT ![p] = "nil"]
    /\ pending' = [pending EXCEPT ![p] = IF TimerID[p] # "nil" THEN FALSE ELSE @]
    /\ timerLeft' = [timerLeft EXCEPT ![p] = IF TimerID[p] # "nil" THEN 0 ELSE @]

\* mutant: keepAlive does not return after leaveRoom
RetFallsThrough(self) ==
    CASE self[1] = "conn" -> "ka_ping"
      [] self[1] = "timer" -> "ka_ping"
      [] self[1] = "recv" -> "exited"

\* where a process continues when keepAlive or the deferred leaveRoom returns
Ret(self) ==
    CASE self[1] = "conn" -> "spawn"
      [] self[1] = "timer" -> "idle"
      [] self[1] = "recv" -> "exited"

\* the deferred s.wg.Done() of handleMessages runs when its leaveRoom returns
wgDone(self) == IF self[1] = "recv" THEN wg - 1 ELSE wg

\* time.Since(peer.LastBeat) > 2*timeout
Dead(p) == sinceBeat[p] > DeadFactor * Timeout

\* keepAlive: cancelKeepAlive, then the deadline check
keepAliveCheck(self) ==
    /\ Running
    /\ self[1] \in {"conn", "timer"}
    /\ pc[self] = "ka_check"
    /\ NotWriting(self)
    /\ cancelKeepAlive(self[2])
    /\ pc' = [pc EXCEPT ![self] = IF Dead(self[2]) THEN "lv_lock" ELSE "ka_ping"]
    /\ evict' = [evict EXCEPT ![self[2]] = @ \/ Dead(self[2])]
    /\ UNCHANGED <<scn, rooms, mutex, done, wg, phase, IP, sinceBeat, closes, out,
                   todo, msg, recipient, nread, nfired, before, after, leaves,
                   wr, broken, frame, unanswered>>

\* keepAlive: send the ping
keepAlivePing(self) ==
    /\ Running
    /\ pc[self] = "ka_ping"
    /\ NotWriting(self)
    /\ out' = send(out, self, self[2], [type |-> "ping"])
    /\ wr' = Begin(self, self[2])
    /\ unanswered' = IF scn.keep THEN [unanswered EXCEPT ![self[2]] = @ + 1] ELSE unanswered
    /\ pc' = [pc EXCEPT ![self] = "ka_sched"]
    /\ UNCHANGED <<scn, rooms, mutex, done, wg, phase, IP, sinceBeat, TimerID, pending,
                   timerLeft, closes, todo, msg, recipient, nread, nfired, before, after, leaves, evict,
                   broken, frame>>

\* keepAlive: peer.TimerID = time.AfterFunc(timeout, ...), and return
keepAliveSchedule(self) ==
    /\ Running
    /\ pc[self] = "ka_sched"
    /\ NotWriting(self)
    /\ TimerID' = [TimerID EXCEPT ![self[2]] = "timer"]
    /\ pending' = [pending EXCEPT ![self[2]] = TRUE]
    /\ timerLeft' = [timerLeft EXCEPT ![self[2]] = Timeout]
    /\ pc' = [pc EXCEPT ![self] = Ret(self)]
    /\ UNCHANGED <<scn, rooms, mutex, done, wg, phase, IP, sinceBeat, closes, out,
                   todo, msg, recipient, nread, nfired, before, after, leaves, evict,
                   wr, broken, frame, unanswered>>

\* the runtime fires the pending timer: a goroutine runs s.keepAlive(peer)
timerFire(p) ==
    /\ Running
    /\ pending[p]
    /\ timerLeft[p] <= 0
    /\ pc[<<"timer", p>>] = "idle"
    /\ NotWriting(<<"timer", p>>)
    /\ scn.free \/ nfired < scn.fires
    /\ nfired' = IF scn.free THEN nfired ELSE nfired + 1
    /\ pending' = [pending EXCEPT ![p] = FALSE]
    /\ pc' = [pc EXCEPT ![<<"timer", p>>] = "ka_check"]
    /\ UNCHANGED <<scn, rooms, mutex, done, wg, phase, IP, sinceBeat, TimerID, timerLeft,
                   closes, out, todo, msg, recipient, nread, before, after, leaves, evict,
                   wr, broken, frame, unanswered>>

\* ---------------------------------------------- leave
\* leaveRoom returns: the deferred s.mutex.Unlock(); the caller goes on
leaveRoomReturn(self) ==
    /\ mutex' = NoOne
    /\ leaves' = [leaves EXCEPT ![self[2]] = @ + 1]
    /\ wg' = wgDone(self)
    /\ pc' = [pc EXCEPT ![self] = Ret(self)]

\* mutant: leaveRoom only checks that the room exists
NotInRoomChecksRoomOnly(p) == IP[p] \notin DOMAIN rooms

\* leaveRoom: s.rooms[peer.IP] == nil || s.rooms[peer.IP][peer.ID] == nil
NotInRoom(p) == p \notin Room(IP[p])

\* leaveRoom: s.mutex.Lock(), the membership check (return if the peer is not
\* in its room), cancelKeepAlive
leaveRoomLock(self) ==
    /\ Running
    /\ pc[self] = "lv_lock"
    /\ NotWriting(self)
    /\ CanLock
    /\ IF NotInRoom(self[2])
       THEN /\ leaveRoomReturn(self)
            /\ UNCHANGED <<TimerID, pending, timerLeft>>
       ELSE /\ mutex' = self
            /\ pc' = [pc EXCEPT ![self] = "lv_delete"]
            /\ cancelKeepAlive(self[2])
            /\ UNCHANGED <<wg, leaves>>
    /\ UNCHANGED <<scn, rooms, done, phase, IP, sinceBeat, closes, out,
                   todo, msg, recipient, nread, nfired, before, after, evict,
                   wr, broken, frame, unanswered>>

\* mutant: leaveRoom deletes the whole room instead of the peer's entry
RemovedWholeRoom(p) == [ip \in DOMAIN rooms \ {IP[p]} |-> rooms[ip]]

\* mutant: leaveRoom keeps the room when its last peer left
RemovedKeepsEmptyRoom(p) == [rooms EXCEPT ![IP[p]] = @ \ {p}]

\* leaveRoom: delete(s.rooms[peer.IP], peer.ID), and delete the room if it
\* is empty now
Removed(p) ==
    IF Room(IP[p]) \ {p} = {}
    THEN [ip \in DOMAIN rooms \ {IP[p]} |-> rooms[ip]]
    ELSE [rooms EXCEPT ![IP[p]] = @ \ {p}]

\* mutant: leaveRoom broadcasts to the room as it was before the delete
leaveRoomDeleteNotifiesAll(self) ==
    /\ Running
    /\ pc[self] = "lv_delete"
    /\ NotWriting(self)
    /\ LET p == self[2]
           rest == Room(IP[p]) \ {p}
       IN /\ rooms' = Removed(p)
          /\ closes' = [closes EXCEPT ![p] = @ + 1]
          /\ after' = [after EXCEPT ![p] = rest]
          /\ todo' = rest \cup {p}
          /\ pc' = [pc EXCEPT ![self] = "lv_notify"]
          /\ UNCHANGED <<mutex, wg, leaves>>
    /\ UNCHANGED <<scn, done, phase, IP, sinceBeat, TimerID, pending,
                   timerLeft, out, msg, recipient, nread, nfired, before, evict,
                   wr, broken, frame, unanswered>>

\* leaveRoom: delete the peer, close its socket, delete the room if empty
leaveRoomDelete(self) ==
    /\ Running
    /\ pc[self] = "lv_delete"
    /\ NotWriting(self)
    /\ LET p == self[2]
           rest == Room(IP[p]) \ {p}
       IN /\ rooms' = Removed(p)
          /\ closes' = [closes EXCEPT ![p] = @ + 1]
          /\ after' = [after EXCEPT ![p] = rest]
          /\ todo' = rest
          /\ IF rest = {}
             THEN leaveRoomReturn(self)
             ELSE /\ pc' = [pc EXCEPT ![self] = "lv_notify"]
                  /\ UNCHANGED <<mutex, wg, leaves>>
    /\ UNCHANGED <<scn, done, phase, IP, sinceBeat, TimerID, pending,
                   timerLeft, out, msg, recipient, nread, nfired, before, evict,
                   wr, broken, frame, unanswered>>

\* leaveRoom: one iteration of the peer-left broadcast; leaveRoom returns
\* when the last write has returned
leaveRoomNotify(self) ==
    /\ Running
    /\ pc[self] = "lv_notify"
    /\ NotWriting(self)
    /\ \E q \in todo :
        /\ out' = send(out, self, q, [type |-> "peer-left", peerId |-> self[2]])
        /\ wr' = Begin(self, q)
        /\ todo' = todo \ {q}
        /\ IF todo = {q} /\ ~scn.split
           THEN leaveRoomReturn(self)
           ELSE UNCHANGED <<mutex, wg, leaves, pc>>
    /\ UNCHANGED <<scn, rooms, done, phase, IP, sinceBeat, TimerID, pending,
                   timerLeft, closes, msg, recipient, nread, nfired, before, after, evict,
                   broken, frame, unanswered>>

\* send: peer.Socket.WriteJSON(message) returns to the goroutine that called
\* it; after the last write of its broadcast, leaveRoom returns
WriteJSONReturns(self) ==
    /\ Running
    /\ wr[self] # NoPeer
    /\ wr' = [wr EXCEPT ![self] = NoPeer]
    /\ IF pc[self] = "lv_notify" /\ todo = {}
       THEN leaveRoomReturn(self)
       ELSE UNCHANGED <<mutex, wg, leaves, pc>>
    /\ UNCHANGED <<scn, rooms, done, phase, IP, sinceBeat, TimerID, pending,
                   timerLeft, closes, out, todo, msg, recipient, nread, nfired, before,
                   after, evict, broken, frame, unanswered>>

\* ---------------------------------------------- receive loop
\* handleMessages, top of the loop: select { case <-s.done: return;
\* default: ReadMessage }. The select only reads s.done, so it is taken
\* together with the step that leads to it; "hm_read" is the loop blocked in
\* ReadMessage, "lv_lock" the deferred leaveRoom waiting for the lock.
LoopTop == IF done THEN "lv_lock" ELSE "hm_read"

\* handleWebSocket: go s.handleMessages(peer)
spawnHandleMessages(p) ==
    /\ Running
    /\ pc[<<"conn", p>>] = "spawn"
    /\ NotWriting(<<"conn", p>>)
    /\ pc' = [pc EXCEPT ![<<"conn", p>>] = "done", ![<<"recv", p>>] = LoopTop]
    /\ UNCHANGED <<scn, rooms, mutex, done, wg, phase, IP, sinceBeat, TimerID, pending,
                   timerLeft, closes, out, todo, msg, recipient, nread, nfired, before, after, leaves, evict,
                   wr, broken, frame, unanswered>>

\* mutant: the receive loop closes the socket itself when a read fails
handleMessagesReadErrorCloses(p) ==
    /\ Running
    /\ pc[<<"recv", p>>] = "hm_read"
    /\ NotWriting(<<"recv", p>>)
    /\ closes' = [closes EXCEPT ![p] = @ + 1]
    /\ pc' = [pc EXCEPT ![<<"recv", p>>] = "lv_lock"]
    /\ UNCHANGED <<scn, rooms, mutex, done, wg, phase, IP, sinceBeat, TimerID, pending,
                   timerLeft, out, todo, msg, recipient, nread, nfired, before, after, leaves, evict,
                   wr, broken, frame, unanswered>>

\* handleMessages: ReadMessage returns an error (the client went away, or the
\* socket was closed): return
handleMessagesReadError(p) ==
    /\ Running
    /\ pc[<<"recv", p>>] = "hm_read"
    /\ NotWriting(<<"recv", p>>)
    /\ pc' = [pc EXCEPT ![<<"recv", p>>] = "lv_lock"]
    /\ UNCHANGED <<scn, rooms, mutex, done, wg, phase, IP, sinceBeat, TimerID, pending,
                   timerLeft, closes, out, todo, msg, recipient, nread, nfired, before, after, leaves, evict,
                   wr, broken, frame, unanswered>>

\* JSON values are strings here; these stand for values that are not JSON strings.
NonStrings == {"#7"}
IsString(v) == v \notin NonStrings

Payload(n) == "sdp-" \o ToString(n)

\* the control documents and the documents without a usable type or
\* destination a client may send as the n-th frame
ControlDocs(n) ==
    {[type |-> "disconnect"], [type |-> "pong"], [sdp |-> Payload(n)], [type |-> "#7"],
     [type |-> "offer", sdp |-> Payload(n)], [type |-> "offer", to |-> "#7", sdp |-> Payload(n)]}

\* the relay requests a client may send as the n-th frame
RelayDocs(n) ==
    {[type |-> "offer", to |-> t, sdp |-> Payload(n)] : t \in Peers \cup {NoPeer}}
    \cup {[type |-> "offer", to |-> t, sender |-> "spoof", sdp |-> Payload(n)] : t \in Peers}

Docs(kind, n) == IF kind = "control" THEN ControlDocs(n) ELSE ControlDocs(n) \cup RelayDocs(n)

\* the frames a client may send as the n-th frame
Frames(kind, n) ==
    {[mt |-> "binary", json |-> FALSE, doc |-> NoMsg],
     [mt |-> "text", json |-> FALSE, doc |-> NoMsg]}
    \cup {[mt |-> "text", json |-> TRUE, doc |-> d] : d \in Docs(kind, n)}

\* mutant: a frame that is not a text frame ends the receive loop
DispatchReturnsOnBinary(f) ==
    IF f.mt # "text" THEN "return"
    ELSE IF ~f.json THEN "drop"
    ELSE IF "type" \notin DOMAIN f.doc \/ ~IsString(f.doc.type) THEN "drop"
    ELSE IF f.doc.type = "disconnect" THEN "return"
    ELSE IF f.doc.type = "pong" THEN "pong"
    ELSE IF "to" \notin DOMAIN f.doc \/ ~IsString(f.doc.to) THEN "drop"
    ELSE "relay"

\* what handleMessages does with a frame: "drop" (continue), "return",
\* "pong" or "relay" (handleRelayMessage goes on to the lookup)
Dispatch(f) ==
    IF f.mt # "text" \/ ~f.json THEN "drop"
    ELSE IF "type" \notin DOMAIN f.doc \/ ~IsString(f.doc.type) THEN "drop"
    ELSE IF f.doc.type = "disconnect" THEN "return"
    ELSE IF f.doc.type = "pong" THEN "pong"
    ELSE IF "to" \notin DOMAIN f.doc \/ ~IsString(f.doc.to) THEN "drop"
    ELSE "relay"

\* handleMessages: ReadMessage returns a frame; the switch on its type; for a
\* relay request, handleRelayMessage up to s.mutex.RLock()
handleMessagesFrame(p) ==
    /\ Running
    /\ pc[<<"recv", p>>] = "hm_read"
    /\ NotWriting(<<"recv", p>>)
    /\ nread < scn.frames
    /\ nread' = nread + 1
    /\ \E f \in Frames(scn.docs, nread + 1) :
        LET d == Dispatch(f) IN
        /\ pc' = [pc EXCEPT ![<<"recv", p>>] =
                    CASE d = "return" -> "lv_lock"
                      [] d = "relay" -> "rl_lookup"
                      [] OTHER -> LoopTop]
        /\ sinceBeat' = IF d = "pong" THEN [sinceBeat EXCEPT ![p] = 0] ELSE sinceBeat
        /\ msg' = IF d = "relay" THEN [msg EXCEPT ![p] = f.doc] ELSE msg
        /\ frame' = IF scn.keep THEN [frame EXCEPT ![p] = f] ELSE frame
        /\ unanswered' = IF scn.keep /\ d = "pong" THEN [unanswered EXCEPT ![p] = 0]
                         ELSE unanswered
    /\ UNCHANGED <<scn, rooms, mutex, done, wg, phase, IP, TimerID, pending, timerLeft,
                   closes, out, todo, recipient, nfired, before, after, leaves, evict,
                   wr, broken>>

\* handleMessages: ReadMessage returns a "pong" frame that the scenario does
\* not count: peer.LastBeat = time.Now()
handleMessagesPong(p) ==
    /\ Running
    /\ scn.free /\ p \in scn.live
    /\ pc[<<"recv", p>>] = "hm_read"
    /\ NotWriting(<<"recv", p>>)
    /\ sinceBeat' = [sinceBeat EXCEPT ![p] = 0]
    /\ pc' = [pc EXCEPT ![<<"recv", p>>] = LoopTop]
    /\ UNCHANGED <<scn, rooms, mutex, done, wg, phase, IP, TimerID, pending, timerLeft,
                   closes, out, todo, msg, recipient, nread, nfired, before, after, leaves, evict,
                   wr, broken, frame, unanswered>>

\* the connection of p stops carrying what the server writes: from now on
\* WriteJSON on p's socket returns an error
transportBreaks(p) ==
    /\ Running
    /\ p \in scn.live
    /\ pc[<<"conn", p>>] # "start"
    /\ closes[p] = 0
    /\ p \notin broken
    /\ broken' = broken \cup {p}
    /\ UNCHANGED <<scn, rooms, mutex, done, wg, phase, IP, sinceBeat, TimerID, pending,
                   timerLeft, closes, out, pc, todo, msg, recipient, nread, nfired, before,
                   after, leaves, evict, wr, frame, unanswered>>

\* mutant: the recipient is looked up in every room
LookupAnywhere(p, to) == IF \E ip \in DOMAIN rooms : to \in rooms[ip] THEN to ELSE NoPeer

\* handleRelayMessage: recipient, exists := s.rooms[peer.IP][to]
Lookup(p, to) == IF to \in Room(IP[p]) THEN to ELSE NoPeer

\* mutant: a request for an unknown recipient is answered with an error frame
handleRelayMessageLookupReports(p) ==
    /\ Running
    /\ pc[<<"recv", p>>] = "rl_lookup"
    /\ NotWriting(<<"recv", p>>)
    /\ mutex = NoOne
    /\ LET r == Lookup(p, msg[p].to) IN
        /\ recipient' = [recipient EXCEPT ![p] = r]
        /\ pc' = [pc EXCEPT ![<<"recv", p>>] = IF r # NoPeer THEN "rl_send" ELSE LoopTop]
        /\ msg' = IF r # NoPeer THEN msg ELSE [msg EXCEPT ![p] = NoMsg]
        /\ out' = IF r # NoPeer THEN out
                  ELSE send(out, <<"recv", p>>, p, [type |-> "error", message |-> "unknown peer"])
    /\ UNCHANGED <<scn, rooms, mutex, done, wg, phase, IP, sinceBeat, TimerID, pending,
                   timerLeft, closes, todo, nread, nfired, before, after, leaves, evict,
                   wr, broken, frame, unanswered>>

\* handleRelayMessage: s.mutex.RLock(), the lookup, s.mutex.RUnlock(): one
\* step, possible while no writer holds the lock; and return if the
\* recipient does not exist
handleRelayMessageLookup(p) ==
    /\ Running
    /\ pc[<<"recv", p>>] = "rl_lookup"
    /\ NotWriting(<<"recv", p>>)
    /\ mutex = NoOne
    /\ LET r == Lookup(p, msg[p].to) IN
        /\ recipient' = [recipient EXCEPT ![p] = r]
        /\ pc' = [pc EXCEPT ![<<"recv", p>>] = IF r # NoPeer THEN "rl_send" ELSE LoopTop]
        /\ msg' = IF r # NoPeer THEN msg ELSE [msg EXCEPT ![p] = NoMsg]
    /\ UNCHANGED <<scn, rooms, mutex, done, wg, phase, IP, sinceBeat, TimerID, pending,
                   timerLeft, closes, out, todo, nread, nfired, before, after, leaves, evict,
                   wr, broken, frame, unanswered>>

\* mutant: the destination field is not deleted
RelayedKeepsTo(m, id) ==
    [k \in DOMAIN m \cup {"sender"} |-> IF k = "sender" THEN id ELSE m[k]]

\* delete(msg, "to"); msg["sender"] = peer.ID
Relayed(m, id) ==
    [k \in (DOMAIN m \ {"to"}) \cup {"sender"} |-> IF k = "sender" THEN id ELSE m[k]]

\* handleRelayMessage: rewrite the document and send it to the recipient
handleRelayMessageSend(p) ==
    /\ Running
    /\ pc[<<"recv", p>>] = "rl_send"
    /\ NotWriting(<<"recv", p>>)
    /\ out' = send(out, <<"recv", p>>, recipient[p], Relayed(msg[p], p))
    /\ wr' = Begin(<<"recv", p>>, recipient[p])
    /\ msg' = [msg EXCEPT ![p] = NoMsg]
    /\ recipient' = [recipient EXCEPT ![p] = NoPeer]
    /\ pc' = [pc EXCEPT ![<<"recv", p>>] = LoopTop]
    /\ UNCHANGED <<scn, rooms, mutex, done, wg, phase, IP, sinceBeat, TimerID, pending,
                   timerLeft, closes, todo, nread, nfired, before, after, leaves, evict,
                   broken, frame, unanswered>>

\* ---------------------------------------------- time and shutdown
Min(x, y) == IF x < y THEN x ELSE y
Max(x, y) == IF x > y THEN x ELSE y

\* the goroutines of the connections are where they take time: blocked in
\* ReadMessage or waiting for a timer
Settled ==
    \A p \in Peers :
        /\ pc[<<"conn", p>>] \in {"start", "done"}
        /\ pc[<<"timer", p>>] = "idle"
        /\ pc[<<"recv", p>>] \in {"idle", "hm_read", "exited"}

\* scn.tick seconds pass; in a punctual scenario only while no goroutine is
\* on its way and no timer is overdue by scn.late seconds
Tick ==
    /\ Running
    /\ scn.punctual => /\ Settled
                       /\ \A p \in Peers : pending[p] => timerLeft[p] > -scn.late
    /\ sinceBeat' = [p \in Peers |->
                        IF pc[<<"conn", p>>] = "start" THEN sinceBeat[p]
                        ELSE Min(sinceBeat[p] + scn.tick, SinceCap)]
    /\ timerLeft' = [p \in Peers |->
                        IF pending[p] THEN Max(timerLeft[p] - scn.tick, -scn.late) ELSE timerLeft[p]]
    /\ UNCHANGED <<scn, rooms, mutex, done, wg, phase, IP, TimerID, pending,
                   closes, out, pc, todo, msg, recipient, nread, nfired, before,
                   after, leaves, evict,
                   wr, broken, frame, unanswered>>

\* main: the graceful shutdown goroutine receives the signal: close(server.done)
signalDrain ==
    /\ phase = "running"
    /\ done' = TRUE
    /\ phase' = "draining"
    /\ UNCHANGED <<scn, rooms, mutex, wg, IP, sinceBeat, TimerID, pending,
                   timerLeft, closes, out, pc, todo, msg, recipient, nread, nfired,
                   before, after, leaves, evict,
                   wr, broken, frame, unanswered>>

\* main: the first goroutine waiting on sigChan receives the signal: os.Exit(0)
signalExit ==
    /\ Running
    /\ phase' = "exited"
    /\ UNCHANGED <<scn, rooms, mutex, done, wg, IP, sinceBeat, TimerID, pending,
                   timerLeft, closes, out, pc, todo, msg, recipient, nread, nfired,
                   before, after, leaves, evict, wr, broken, frame, unanswered>>

\* main: the graceful shutdown goroutine: server.wg.Wait() returns; os.Exit(0)
drainExit ==
    /\ phase = "draining"
    /\ wg = 0
    /\ phase' = "exited"
    /\ UNCHANGED <<scn, rooms, mutex, done, wg, IP, sinceBeat, TimerID, pending,
                   timerLeft, closes, out, pc, todo, msg, recipient, nread, nfired,
                   before, after, leaves, evict, wr, broken, frame, unanswered>>

\* connections, receive loops without relaying, keepalive, leaving, shutdown
NextControl ==
    \/ \E p \in Peers :
        \/ handleWebSocket(p)
        \/ joinRoomCreate(p)
        \/ joinRoomNotify(p)
        \/ joinRoomPeers(p)
        \/ joinRoomInsert(p)
        \/ onConnectionDisplayName(p)
        \/ spawnHandleMessages(p)
        \/ handleMessagesReadError(p)
        \/ handleMessagesFrame(p)
    \/ \E self \in Procs :
        \/ keepAliveCheck(self)
        \/ keepAlivePing(self)
        \/ keepAliveSchedule(self)
        \/ leaveRoomLock(self)
        \/ leaveRoomDelete(self)
        \/ leaveRoomNotify(self)
    \/ signalDrain

Next ==
    \/ NextControl
    \/ \E p \in Peers :
        \/ handleRelayMessageLookup(p)
        \/ handleRelayMessageSend(p)

\* the clients of the timed scenario send no relay requests
NextTimed ==
    \/ NextControl
    \/ \E p \in Peers : timerFire(p)
    \/ Tick

\* Three clients connect, within one keepalive interval.
Init == \E ips \in IPAssignments :
    InitWith(Scenario(Peers, RoomsFrames, "all", 0)) /\ IP = ips

\* Two clients connect, from one address or from two, and send relay requests.
InitRelay == \E ips \in IPAssignments :
    InitWith(Scenario({"a", "c"}, RelayFrames, "all", 0)) /\ IP = ips

\* Two clients connect, from one address or from two; time passes.
InitTimed == \E ips \in IPAssignments :
    InitWith(Scenario({"a", "c"}, TimedFrames, "control", TimedFires)) /\ IP = ips

\* the same, with the beginning and the return of every write told apart
NextWrites ==
    \/ Next
    \/ \E self \in Procs : WriteJSONReturns(self)

\* Two clients connect, from one address or from two, and send relay
\* requests; every write on a socket takes two steps.
InitWrites == \E ips \in IPAssignments :
    InitWith([Scenario({"a", "c"}, WritesFrames, "all", 0) EXCEPT !.split = TRUE]) /\ IP = ips

\* the process ends as well
NextShutdown ==
    \/ NextControl
    \/ signalExit
    \/ drainExit

\* Two clients connect, from one address or from two; signals arrive.
InitShutdown == \E ips \in IPAssignments :
    InitWith(Scenario({"a", "c"}, ShutdownFrames, "control", 0)) /\ IP = ips

\* one connection on its own: nobody to notify, nobody to relay to
NextSolo ==
    \/ \E p \in Peers :
        \/ handleWebSocket(p)
        \/ joinRoomCreate(p)
        \/ joinRoomPeers(p)
        \/ joinRoomInsert(p)
        \/ onConnectionDisplayName(p)
        \/ spawnHandleMessages(p)
        \/ handleMessagesReadError(p)
        \/ handleMessagesFrame(p)
    \/ \E self \in Procs :
        \/ keepAliveCheck(self)
        \/ keepAlivePing(self)
        \/ keepAliveSchedule(self)
        \/ leaveRoomLock(self)
        \/ leaveRoomDelete(self)
    \/ signalDrain

\* with timers, time, a client that goes on answering pings, a connection
\* that fails, a graceful shutdown
NextLive ==
    \/ NextSolo
    \/ \E p \in Peers :
        \/ handleMessagesPong(p)
        \/ timerFire(p)
        \/ transportBreaks(p)
    \/ Tick
    \/ drainExit

\* with timers and time
NextBeat ==
    \/ NextSolo
    \/ \E p \in Peers : timerFire(p)
    \/ Tick

\* One client connects and may answer pings; a step of the clock is BeatTick
\* seconds, a timer fires when it is due or one step later, and the
\* goroutines take no time; the pings without an answer are counted.
InitBeat == \E ips \in IPAssignments :
    InitWith([Scenario({"a"}, BeatFrames, "control", BeatFires)
                EXCEPT !.keep = TRUE, !.tick = BeatTick, !.punctual = TRUE, !.late = BeatTick])
    /\ IP = ips

\* One client connects; the timers fire for ever and the client may answer
\* pings for ever.
InitLive == \E ips \in IPAssignments :
    InitWith([Scenario({"a"}, LiveFrames, "control", 0)
                EXCEPT !.free = TRUE, !.live = {"a"}]) /\ IP = ips

\* What the Go runtime guarantees: every goroutine that can take a step takes
\* one (a goroutine waiting for the lock gets it), time passes, a timer that
\* is due fires, and ReadMessage on a socket the server closed returns an
\* error. Nothing is assumed of the clients.
Fairness ==
    /\ \A self \in Procs :
        WF_vars(\/ keepAliveCheck(self) \/ keepAlivePing(self) \/ keepAliveSchedule(self)
                \/ leaveRoomLock(self) \/ leaveRoomDelete(self) \/ leaveRoomNotify(self))
    /\ \A p \in Peers :
        /\ WF_vars(\/ joinRoomCreate(p) \/ joinRoomNotify(p) \/ joinRoomPeers(p)
                   \/ joinRoomInsert(p) \/ onConnectionDisplayName(p) \/ spawnHandleMessages(p))
        /\ WF_vars(timerFire(p))
        /\ WF_vars(closes[p] > 0 /\ handleMessagesReadError(p))
    /\ WF_vars(Tick)
    /\ WF_vars(drainExit)

\* with relay requests (to itself or to nobody), timers and time
NextFrames ==
    \/ NextSolo
    \/ \E p \in Peers :
        \/ handleRelayMessageLookup(p)
        \/ handleRelayMessageSend(p)
        \/ timerFire(p)
    \/ Tick

\* One client connects and sends frames of every kind; time passes; the
\* frame read last is remembered.
InitFrames == \E ips \in IPAssignments :
    InitWith([Scenario({"a"}, FramesFrames, "all", FramesFires) EXCEPT !.keep = TRUE]) /\ IP = ips

Spec == Init /\ [][Next]_vars
SpecFrames == InitFrames /\ [][NextFrames]_vars
SpecBeat == InitBeat /\ [][NextBeat]_vars
SpecLive == InitLive /\ [][NextLive]_vars /\ Fairness
SpecShutdown == InitShutdown /\ [][NextShutdown]_vars
SpecWrites == InitWrites /\ [][NextWrites]_vars
SpecRelay == InitRelay /\ [][Next]_vars
SpecTimed == InitTimed /\ [][NextTimed]_vars
\* ====================================================== properties
\* the entries of q's transport that satisfy Test, whoever wrote them
Hits(q, Test(_)) ==
    UNION {{<<w, i>> : i \in {j \in DOMAIN out[q][w] : Test(out[q][w][j])}} : w \in Procs}
CountTo(q, Test(_)) == Cardinality(Hits(q, Test))

\* server notifications carry no "sender": only relayed documents do
IsPeerJoined(e, p) ==
    e.doc.type = "peer-joined" /\ "sender" \notin DOMAIN e.doc /\ e.doc.peer.id = p
IsPeerLeft(e, p) ==
    e.doc.type = "peer-left" /\ "sender" \notin DOMAIN e.doc /\ e.doc.peerId = p
IsPeers(e) == e.doc.type = "peers" /\ "sender" \notin DOMAIN e.doc
IsRelay(e) == "sender" \in DOMAIN e.doc

\* joinRoom(p) has returned
Joined(p) == pc[<<"conn", p>>] \notin {"start", "oc_lock", "jr_notify", "jr_peers", "jr_insert"}
\* a leaveRoom(p) has returned
Left(p) == leaves[p] > 0
InLeave == {"lv_delete", "lv_notify"}

\* C1: whenever no joinRoom or leaveRoom is in progress (the write lock is
\* free), the room of every locality holds exactly the peers of that locality
\* whose joinRoom has returned and for which no leaveRoom has returned yet,
\* and a locality without such peers has no room.
C1_Membership ==
    mutex = NoOne =>
        \A ip \in IPs :
            LET members == {p \in Peers : IP[p] = ip /\ Joined(p) /\ ~Left(p)} IN
            /\ Room(ip) = members
            /\ members = {} => ip \notin DOMAIN rooms

\* a peer that had joined a room of others has left, and two peers stay in the room
C1_Witness ==
    /\ mutex = NoOne
    /\ \E p \in Peers : Joined(p) /\ Left(p) /\ Cardinality(Room(IP[p])) = 2
                           /\ before[p] # {}

\* C2: whenever no writer holds the registry lock, every key of s.rooms maps
\* to a room with at least one peer.
C2_NoEmptyRoom ==
    mutex = NoOne => \A ip \in DOMAIN rooms : rooms[ip] # {}

\* the last peer of a room has left and the room is gone, another room exists
C2_Witness ==
    /\ mutex = NoOne
    /\ \E p \in Peers : Left(p) /\ after[p] = {} /\ IP[p] \notin DOMAIN rooms
    /\ DOMAIN rooms # {}

\* the ids listed by the "peers" document sent to p
SnapshotList(p) ==
    LET s == SelectSeq(out[p][<<"conn", p>>], IsPeers) IN
    IF s = << >> THEN << >> ELSE s[1].doc.peers
SnapshotIds(p) == {SnapshotList(p)[i].id : i \in DOMAIN SnapshotList(p)}

\* C3: from the peer-joined broadcast of a join of p to the insertion of p no
\* step changes any room, except the insertion itself, which adds p and only
\* p; and at the insertion the one "peers" document sent to p lists exactly
\* the members of p's room at that moment, each once, and not p.
C3_Step(p) ==
    pc[<<"conn", p>>] \in {"jr_notify", "jr_peers", "jr_insert"} =>
        \/ rooms' = rooms /\ pc'[<<"conn", p>>] \in {"jr_notify", "jr_peers", "jr_insert"}
        \/ /\ pc[<<"conn", p>>] = "jr_insert"
           /\ rooms' = [rooms EXCEPT ![IP[p]] = @ \cup {p}]
           /\ IP[p] \in DOMAIN rooms
           /\ CountTo(p, IsPeers) = 1
           /\ SnapshotIds(p) = rooms[IP[p]]
           /\ Len(SnapshotList(p)) = Cardinality(rooms[IP[p]])
           /\ p \notin SnapshotIds(p)
C3_Snapshot == [][\A p \in Peers : C3_Step(p)]_vars

\* p has just been inserted into a room of two, while another join and a
\* leave wait for the lock
C3_Witness ==
    \E p, q, r \in Peers :
        /\ pc[<<"conn", p>>] = "oc_display" /\ Cardinality(before[p]) = 1
        /\ SnapshotIds(p) = before[p]
        /\ pc[<<"conn", q>>] = "oc_lock"
        /\ pc[<<"recv", r>>] = "lv_lock"

\* C4: a join of p sends "peer-joined" naming p at most once to any peer,
\* never to p and never to a peer of another locality; once joinRoom has
\* returned, exactly the peers that were in the room before p have one.
C4_PeerJoined ==
    \A p, q \in Peers :
        LET n == CountTo(q, LAMBDA e : IsPeerJoined(e, p)) IN
        /\ n <= 1
        /\ (q = p \/ IP[q] # IP[p]) => n = 0
        /\ Joined(p) => (n = 1 <=> q \in before[p])

\* p joined a room of one, who was told, while a peer of another locality
\* was connected, who was not
C4_Witness ==
    \E p, q, r \in Peers :
        /\ Joined(p) /\ before[p] = {q}
        /\ IP[r] # IP[p] /\ Joined(r) /\ ~Left(r)
        /\ CountTo(q, LAMBDA e : IsPeerJoined(e, p)) = 1
        /\ CountTo(r, LAMBDA e : IsPeerJoined(e, p)) = 0

\* C5: "peer-left" carrying p's id is sent at most once to any peer and never
\* to p; once a leaveRoom(p) has returned, exactly the peers that remained in
\* the room when p was removed have one, however many leave paths ran.
C5_PeerLeft ==
    \A p, q \in Peers :
        LET n == CountTo(q, LAMBDA e : IsPeerLeft(e, p)) IN
        /\ n <= 1
        /\ q = p => n = 0
        /\ Left(p) => (n = 1 <=> q \in after[p])

\* the keepalive and the receive loop both ran leaveRoom for p, and the peer
\* that remained has its one "peer-left"
C5_Witness ==
    \E p, q \in Peers :
        /\ leaves[p] >= 2 /\ evict[p]
        /\ q \in after[p]
        /\ CountTo(q, LAMBDA e : IsPeerLeft(e, p)) = 1
\* C6: a relayed document (one that carries "sender") is written only by the
\* receive loop of the peer its "sender" names, and only to a transport of
\* that peer's own locality.
C6_RelayStaysLocal ==
    \A q \in Peers : \A w \in Procs : \A i \in DOMAIN out[q][w] :
        IsRelay(out[q][w][i]) =>
            /\ w[1] = "recv"
            /\ out[q][w][i].doc.sender = w[2]
            /\ IP[w[2]] = IP[q]

\* p, a member of its room, has a request in hand that names q, a member of
\* the room of another locality
C6_Witness ==
    \E p, q \in Peers :
        /\ IP[p] # IP[q]
        /\ p \in Room(IP[p]) /\ q \in Room(IP[q])
        /\ pc[<<"recv", p>>] = "rl_lookup"
        /\ msg[p].to = q
        /\ mutex = NoOne

\* C7: the step of handleRelayMessage that finds msg["to"] not to be a member
\* of the sender's room writes to no transport, changes no room, closes no
\* socket, and takes the receive loop back to the top of its loop.
C7_Step(p) ==
    (/\ pc[<<"recv", p>>] = "rl_lookup"
     /\ pc'[<<"recv", p>>] # "rl_lookup"
     /\ msg[p].to \notin Room(IP[p]))
    => /\ out' = out
       /\ rooms' = rooms
       /\ closes' = closes
       /\ pc'[<<"recv", p>>] = (IF done THEN "lv_lock" ELSE "hm_read")
C7_RelayToAbsent == [][\A p \in Peers : C7_Step(p)]_vars

\* p holds a request for q, who was in p's room and has left it
C7_Witness ==
    \E p, q \in Peers :
        /\ p # q /\ IP[p] = IP[q]
        /\ pc[<<"recv", p>>] = "rl_lookup"
        /\ msg[p].to = q
        /\ p \in before[q] \cup after[q] /\ Left(q)
        /\ mutex = NoOne

\* the position of a payload in the order the frames were sent
PayloadIndex(sdp) == CHOOSE n \in 1..scn.frames : Payload(n) = sdp

\* C8: a lookup that finds msg["to"] in the sender's room is followed by the
\* send step; the send step of handleRelayMessage appends exactly one document to
\* the recipient's transport and writes nothing else; the document has the
\* fields of the inbound one without "to", plus "sender" set to the relaying
\* peer's id, every other field unchanged. The documents one peer relayed to
\* one recipient are in the order in which its receive loop read them.
C8_Step(p) ==
    (pc[<<"recv", p>>] = "rl_send" /\ pc'[<<"recv", p>>] # "rl_send") =>
        LET d == msg[p]
            r == d.to
            w == <<"recv", p>>
        IN /\ \A q \in Peers : \A v \in Procs : (q # r \/ v # w) => out'[q][v] = out[q][v]
           /\ Len(out'[r][w]) = Len(out[r][w]) + 1
           /\ SubSeq(out'[r][w], 1, Len(out[r][w])) = out[r][w]
           /\ LET e == out'[r][w][Len(out'[r][w])].doc IN
               /\ DOMAIN e = (DOMAIN d \ {"to"}) \cup {"sender"}
               /\ e.sender = p
               /\ \A k \in DOMAIN d \ {"to", "sender"} : e[k] = d[k]
C8_Found(p) ==
    (/\ pc[<<"recv", p>>] = "rl_lookup"
     /\ pc'[<<"recv", p>>] # "rl_lookup"
     /\ msg[p].to \in Room(IP[p]))
    => pc'[<<"recv", p>>] = "rl_send" /\ msg' = msg
C8_Order ==
    \A p, q \in Peers :
        LET s == SelectSeq(out[q][<<"recv", p>>], IsRelay) IN
        \A i, j \in DOMAIN s : i < j => PayloadIndex(s[i].doc.sdp) < PayloadIndex(s[j].doc.sdp)
C9_Evicted ==
    \A p \in Peers :
        (/\ evict[p]
         /\ pc[<<"conn", p>>] \notin {"lv_lock", "lv_delete", "lv_notify"}
         /\ pc[<<"timer", p>>] \notin {"lv_lock", "lv_delete", "lv_notify"})
        => /\ p \notin Room(IP[p])
           /\ closes[p] = 1
           /\ \A q \in Peers :
                CountTo(q, LAMBDA e : IsPeerLeft(e, p)) = (IF q \in after[p] THEN 1 ELSE 0)
           /\ ~pending[p]
           /\ TimerID[p] = "nil"
           /\ pc[<<"timer", p>>] = "idle"
           /\ pc[<<"conn", p>>] \in {"spawn", "done"}

\* a timer firing evicted p, after an earlier firing had pinged it; the peer
\* that remained in the room was told
C9_Witness ==
    \E p, q \in Peers :
        /\ evict[p] /\ pc[<<"timer", p>>] = "idle" /\ pc[<<"conn", p>>] = "done"
        /\ nfired = 2
        /\ Len(out[p][<<"timer", p>>]) = 1
        /\ after[p] = {q}
        /\ out[q][<<"timer", p>>] # << >>

\* C10: a leaveRoom call for a peer that was removed before changes no room,
\* writes to no transport, closes no socket and touches no timer; so a socket
\* is closed at most once, and exactly once when a leaveRoom has returned.
C10_Step(self) ==
    (pc[self] = "lv_lock" /\ pc'[self] # "lv_lock" /\ closes[self[2]] > 0)
    => /\ rooms' = rooms
       /\ out' = out
       /\ closes' = closes
       /\ TimerID' = TimerID
       /\ pending' = pending
       /\ pc'[self] \notin {"lv_delete", "lv_notify"}
C10_ClosedOnce ==
    \A p \in Peers : closes[p] <= 1 /\ (Left(p) => closes[p] = 1)
C10_Idempotent == [][\A self \in Procs : C10_Step(self)]_vars /\ []C10_ClosedOnce

\* two or more leaveRoom calls for p have returned (keepalive, receive loop), one
\* of them while p's room still existed, and its socket was closed once
C10_Witness ==
    \E p \in Peers :
        /\ leaves[p] >= 2
        /\ closes[p] = 1
        /\ after[p] # {}
        /\ IP[p] \in DOMAIN rooms

\* C11: at no time are two goroutines inside WriteJSON on the same peer's
\* socket.
C11_WritesSerialized ==
    \A q \in Peers : Cardinality({w \in Procs : wr[w] = q}) <= 1

\* C12: once leaveRoom has removed p and closed its socket, no keepAlive call
\* for p is checking, pinging or scheduling, and no timer for p is pending.
C12_NoTimerAfterLeave ==
    \A p \in Peers :
        closes[p] > 0 =>
            /\ ~pending[p]
            /\ pc[<<"timer", p>>] \notin {"ka_check", "ka_ping", "ka_sched"}
            /\ pc[<<"conn", p>>] \notin {"ka_check", "ka_ping", "ka_sched"}

\* C13: whenever the write lock is free, no peer stored in a room has a
\* closed socket; and a step that closes p's socket is a step of a leaveRoom
\* for p that holds the write lock and deletes p from its room.
C13_Live ==
    mutex = NoOne => \A ip \in DOMAIN rooms : \A p \in rooms[ip] : closes[p] = 0
C13_Step(p) ==
    closes'[p] # closes[p] =>
        /\ closes[p] = 0 /\ closes'[p] = 1
        /\ mutex[2] = p /\ pc[mutex] = "lv_delete"
        /\ p \in Room(IP[p])
        /\ p \notin (IF IP[p] \in DOMAIN rooms' THEN rooms'[IP[p]] ELSE {})
C13_TransportLive == []C13_Live /\ [][\A p \in Peers : C13_Step(p)]_vars

\* a has left, evicted by its keepalive, and its socket is closed; c stays
\* in the room with its socket open
C13_Witness ==
    \E p, q \in Peers :
        /\ mutex = NoOne
        /\ evict[p] /\ closes[p] = 1 /\ after[p] = {q}
        /\ q \in Room(IP[q]) /\ closes[q] = 0

\* C14: when the process has exited, then for every connection whose receive
\* loop had been started, done was closed and the loop has run its leaveRoom
\* and returned.
C14_ExitAfterDrain ==
    phase = "exited" =>
        \A p \in Peers :
            pc[<<"conn", p>>] = "done" => done /\ pc[<<"recv", p>>] = "exited"

\* a write on p's socket has failed, or p's receive loop has returned
WriteFailed(p) == \E w \in Procs : \E i \in DOMAIN out[p][w] : out[p][w][i].err
LoopReturned(p) == pc[<<"recv", p>>] = "lv_lock"
Gone(p) == p \notin Room(IP[p]) /\ closes[p] > 0

\* C15: when a write on p's socket has failed, or p's receive loop has
\* returned (a read failed), p is eventually removed from its room and its
\* socket closed by leaveRoom; and a step in which a write fails or a read
\* error is taken changes no room.
C15_FailureLeaves ==
    /\ \A p \in Peers : (WriteFailed(p) \/ LoopReturned(p)) ~> Gone(p)
    /\ [][\A p \in Peers :
            ((~WriteFailed(p) /\ WriteFailed(p)') \/ (~LoopReturned(p) /\ LoopReturned(p)'))
            => rooms' = rooms]_vars

\* C18: when the process is over after done was closed, every receive loop
\* that had been started has returned and a leaveRoom for its peer has run;
\* a receive loop that has returned has been followed by its one leaveRoom.
C18_LoopsDrain ==
    /\ (phase = "exited" /\ done) =>
            \A p \in Peers :
                pc[<<"recv", p>>] # "idle" => pc[<<"recv", p>>] = "exited" /\ Left(p)
    /\ \A p \in Peers : pc[<<"recv", p>>] = "exited" => Left(p) /\ Gone(p)

\* As long as the process is not killed, a receive loop that is blocked in
\* ReadMessage when done is closed does return: its client sends a frame,
\* or the keepalive closes its socket. (Holds under SpecLive, which has no
\* signalExit.)
DrainsUnlessKilled ==
    \A p \in Peers :
        (done /\ pc[<<"recv", p>>] = "hm_read") ~> (pc[<<"recv", p>>] = "exited")

\* the frames the receive loop is to drop: not a text frame, not a JSON
\* document, no string "type", or neither "disconnect" nor "pong" and no
\* string "to"
ToBeDropped(f) ==
    \/ f.mt # "text"
    \/ ~f.json
    \/ "type" \notin DOMAIN f.doc
    \/ f.doc.type \in NonStrings
    \/ /\ f.doc.type \notin {"disconnect", "pong"}
       /\ ("to" \notin DOMAIN f.doc \/ f.doc.to \in NonStrings)

\* C16: the step in which p's receive loop reads a frame that is to be dropped
\* changes no room, no LastBeat, no timer, no socket and nothing written, and
\* the loop goes back to the top of its loop; such a step changes p's
\* LastBeat only if the frame is a "pong", and then writes nothing, and it
\* ends the loop (done not being closed) only if the frame is a "disconnect".
\* (One connection: the loop in ReadMessage is the one that reads.)
C16_Step(p) ==
    (pc[<<"recv", p>>] = "hm_read" /\ nread' = nread + 1)
    => LET f == frame'[p] IN
       /\ ToBeDropped(f) =>
            /\ rooms' = rooms /\ sinceBeat' = sinceBeat /\ closes' = closes /\ out' = out
            /\ TimerID' = TimerID /\ pending' = pending /\ timerLeft' = timerLeft
            /\ pc'[<<"recv", p>>] = (IF done THEN "lv_lock" ELSE "hm_read")
       /\ sinceBeat' # sinceBeat =>
            f.mt = "text" /\ f.json /\ f.doc = [type |-> "pong"] /\ sinceBeat'[p] = 0 /\ out' = out
       /\ (pc'[<<"recv", p>>] = "lv_lock" /\ ~done) =>
            f.mt = "text" /\ f.json /\ f.doc = [type |-> "disconnect"]
C16_Dropped == [][\A p \in Peers : C16_Step(p)]_vars

\* p's loop has read a binary frame 30 s after its last heartbeat, with its
\* timer pending, and is reading again
C16_Witness ==
    \E p \in Peers :
        /\ frame[p].mt = "binary"
        /\ pc[<<"recv", p>>] = "hm_read"
        /\ sinceBeat[p] = Timeout
        /\ pending[p]
        /\ nread = 2

\* C17: a keepAlive call finds p past its deadline only when the last two
\* pings sent to p, at least, have had no pong.
C17_FailOpen ==
    \A p \in Peers : evict[p] => unanswered[p] >= 2

\* what the documents written to p tell its client: the ids announced by
\* "peer-joined" and the ids withdrawn by "peer-left"
JoinedIds(p) == {q \in Peers : \E w \in Procs : \E i \in DOMAIN out[p][w] : IsPeerJoined(out[p][w][i], q)}
LeftIds(p) == {q \in Peers : \E w \in Procs : \E i \in DOMAIN out[p][w] : IsPeerLeft(out[p][w][i], q)}
View(p) == (SnapshotIds(p) \cup JoinedIds(p)) \ LeftIds(p)

\* C19: whenever the registry lock is free, the peers a member p knows of
\* (its "peers" snapshot plus the "peer-joined" ids, minus the "peer-left"
\* ids) are exactly the other members of its room; and p is never sent
\* "peer-left" for a peer it was not told about, nor "peer-joined" for a peer
\* of its snapshot.
C19_ViewsConsistent ==
    /\ mutex = NoOne =>
          \A ip \in DOMAIN rooms : \A p \in rooms[ip] : View(p) = rooms[ip] \ {p}
    /\ \A p \in Peers :
          /\ LeftIds(p) \subseteq SnapshotIds(p) \cup JoinedIds(p)
          /\ JoinedIds(p) \cap SnapshotIds(p) = {}

\* the lock is free and a member with a snapshot of one peer has since been
\* told of a join and of a leave
C19_Witness ==
    /\ mutex = NoOne
    /\ \E p \in Peers :
          /\ p \in Room(IP[p])
          /\ SnapshotIds(p) # {}
          /\ JoinedIds(p) # {}
          /\ LeftIds(p) # {}
          /\ View(p) # {}

\* C20: no document is written to a transport that leaveRoom has closed:
\* every write (relay delivery, ping, broadcast) to a peer that has joined
\* finds it still a member of its room.
C20_NoWriteAfterClose ==
    \A p \in Peers : \A w \in Procs : \A i \in DOMAIN out[p][w] :
        ~out[p][w][i].closed
====
